---- MODULE Spec2Model ----
(***************************************************************************)
(* Model of the Temporal workflows of the FuzzForge toolbox:               *)
(*   HashCrackingWorkflow.run      (hash_cracking/workflow.py)             *)
(*   BinaryAnalysisWorkflow.run    (binary_analysis/workflow.py)           *)
(*   LlmSecretDetectionWorkflow.run (llm_secret_detection/workflow.py)     *)
(* One run of one workflow is modelled.  Every `await execute_activity`    *)
(* is one action; the Python code between two awaits belongs to the        *)
(* action of the first await.  Activities are external: an attempt either  *)
(* returns a value, fails in a retryable way, or fails in a non-retryable  *)
(* way; the retry policy given at the call site decides whether a          *)
(* retryable failure is retried or raised into the workflow.               *)
(***************************************************************************)
EXTENDS Integers, Sequences, FiniteSets, TLC

(* ---------------------------- bounds ---------------------------------- *)
\* largest hashcat mode explored (modes are 0..MaxMode)
MaxMode == 1
\* longest findings list an identification result carries
MaxCandidates == 2
\* largest summary.total_matches value an identification result carries
MaxTotalMatches == 3
\* attempts explored for an activity called without a retry policy
\* (Temporal's default policy retries without limit)
MaxDefaultAttempts == 2

(* ------------------------ program constants --------------------------- *)
\* RetryPolicy(maximum_attempts=3) of get_target
GetTargetMaxAttempts == 3
\* RetryPolicy(maximum_attempts=1) of run_hashid
HashidMaxAttempts == 1
\* RetryPolicy(maximum_attempts=1) of run_hashcat
HashcatMaxAttempts == 1
\* RetryPolicy(maximum_attempts=1) of run_capa
CapaMaxAttempts == 1
\* RetryPolicy(maximum_attempts=2) of scan_with_llm
LlmScanMaxAttempts == 2
\* no retry_policy argument: maximum_attempts of the default policy, 0 = unlimited
Unlimited == 0

(* --------------------------- value encodings --------------------------- *)
\* Python None where an int is expected (hashcat modes are never negative)
None == -1
Modes == 0 .. MaxMode
\* the empty dict {}
EmptyDict == [k \in {} |-> 0]
\* dict.get(k, default)
Get(d, k, default) == IF k \in DOMAIN d THEN d[k] ELSE default

Kinds == {"hash", "binary", "llm"}
Hashes == {"5f4dcc3b5aa765d61d8327deb882cf99", "abc"}
Paths == {"/cache/a", "/cache/b"}
TargetId == "target-1"
RunId == "run-1"
WorkflowId == "wf-1"

\* outcome of one activity attempt
AttemptOutcomes == {"ok", "fail", "fatal"}

\* sequences over S of length 0..n
RECURSIVE SeqsUpTo(_, _)
SeqsUpTo(S, n) ==
  IF n = 0 THEN {<<>>}
  ELSE LET shorter == SeqsUpTo(S, n - 1)
       IN shorter \cup {Append(s, x) : s \in {t \in shorter : Len(t) = n - 1}, x \in S}

\* a candidate finding as the identification module builds it
CandidateFinding(meta) ==
  [title |-> "Possible Hash Type", severity |-> "info",
   category |-> "hash_identification", metadata |-> meta]

CandidateMetadata == {EmptyDict} \cup {[hashcat_mode |-> m] : m \in Modes \cup {None}}
Candidates == {CandidateFinding(meta) : meta \in CandidateMetadata}

\* the dicts HashIdIdentifier.execute builds: on success one finding per
\* identified type and total_matches = len(results); on failure no findings
\* and no summary entries
ModuleHashidResults ==
  {[status |-> "success", findings |-> fs, summary |-> [total_matches |-> Len(fs)]] :
      fs \in SeqsUpTo(Candidates, MaxCandidates)}
  \cup {[status |-> "failed", findings |-> <<>>, summary |-> EmptyDict]}

\* every dict an activity registered as run_hashid may hand to the workflow:
\* total_matches may be missing, negative, or differ from len(findings)
HashidSummaries == {EmptyDict} \cup {[total_matches |-> n] : n \in (-1) .. MaxTotalMatches}
AnyHashidResults ==
  [status : {"success", "failed"},
   findings : SeqsUpTo(Candidates, MaxCandidates),
   summary : HashidSummaries]

\* what run_hashid returns under the contract of this run
HashidResults(contract) ==
  IF contract = "module" THEN ModuleHashidResults ELSE AnyHashidResults

\* findings an analysis activity (run_hashcat, run_capa, scan_with_llm) returns
AnalysisFinding(i) ==
  [title |-> "Analysis Finding", severity |-> "critical",
   category |-> "analysis", metadata |-> [index |-> i]]
AnalysisFindingLists == {<<>>, <<AnalysisFinding(0)>>, <<AnalysisFinding(1), AnalysisFinding(0)>>}
AnalysisSummaries == {EmptyDict, [plaintext |-> "password"]}
AnalysisResults ==
  [status : {"success", "failed"},
   findings : AnalysisFindingLists,
   summary : AnalysisSummaries]
NoResult == [status |-> "none", findings |-> <<>>, summary |-> EmptyDict]

\* values a report activity returns
ReportValues == {"sarif_doc", "empty"}
PublishUrl == "s3://results/wf-1"

VARIABLES
  kind,              \* which workflow this run executes
  hashid_contract,   \* "module": run_hashid returns what HashIdIdentifier builds; "any": any dict
  target_hash,       \* run() argument (hash cracking)
  target_hash_type,  \* run() argument, None when not supplied
  pc,                \* the await the coroutine is suspended at
  attempt,           \* attempts already made of the activity at pc
  calls,             \* execute_activity calls made so far, in order
  results,           \* the `results` dict of run()
  target_path,       \* local of run()
  hashid_results,    \* local of run()
  hashcat_mode,      \* local of run()
  analysis,          \* hashcat_results / fuzz_results / scan_results
  sarif_report,      \* local of LlmSecretDetectionWorkflow.run
  exc,               \* exception in flight / propagated, <<>> when none
  outcome,           \* "running", "returned" or "raised"
  runs,              \* the runs executing side by side (workspace ownership), <<>> for one run
  module_call        \* a call of an activity or module function: [op, args, out]

\* what no step of a single run() changes
inputs == <<kind, hashid_contract, target_hash, target_hash_type, runs, module_call>>
locals == <<target_path, hashid_results, hashcat_mode, analysis, sarif_report>>
vars == <<kind, hashid_contract, target_hash, target_hash_type, pc, attempt, calls, results,
          target_path, hashid_results, hashcat_mode, analysis, sarif_report,
          exc, outcome, runs, module_call>>

(* ------------------------- the results dict --------------------------- *)
\* results = {"workflow_id":…, "target_id":…, "status": "running", "steps": []}
InitialResults(k) ==
  [workflow_id |-> WorkflowId, target_id |-> TargetId,
   status |-> "running", steps |-> <<>>,
   keys |-> IF k = "llm" THEN {"findings"} ELSE {},
   error |-> <<>>, message |-> "", sarif |-> "", results_url |-> "",
   findings |-> <<>>, summary |-> EmptyDict]

\* results[k] = v
SetKey(res, k, v) == [res EXCEPT ![k] = v, !.keys = @ \cup {k}]

\* a step record inserted at the front of steps
AppendStepFront(res, name, status) ==
  [res EXCEPT !.steps = <<[step |-> name, status |-> status]>> \o @]

\* a step record that is never appended
AppendStepDropped(res, name, status) == res

\* results["steps"].append({"step": name, "status": status})
AppendStep(res, name, status) ==
  [res EXCEPT !.steps = Append(@, [step |-> name, status |-> status])]

\* the exception execute_activity raises for a failed activity
ActivityError(name) == <<"ActivityError", name>>
\* findings[0] on an empty list
IndexError == <<"IndexError", "list index out of range">>
\* str(e)
Str(e) == e[2]

\* a handler that sets status and error but appends no step record
ExceptHandlerNoRecord(res, e) ==
  SetKey([res EXCEPT !.status = "error"], "error", Str(e))

\* except Exception as e: status = "error"; error = str(e); steps.append(error step)
ExceptHandler(res, e) ==
  AppendStep(SetKey([res EXCEPT !.status = "error"], "error", Str(e)), "error", "failed")

(* -------------------- the activity executor (Temporal) ----------------- *)
\* a retryable failure of attempt number attempt+1 is retried
WillRetry(max) == IF max = Unlimited THEN TRUE ELSE attempt + 1 < max

\* outcomes explored for the next attempt: an unlimited policy would retry
\* for ever, so retryable failures stop being explored at the bound
Explored(o, max) == (o = "fail" /\ max = Unlimited) => attempt + 1 < MaxDefaultAttempts

\* maximum_attempts of the retry policy given where the activity `name` is
\* called; the report, upload and cleanup calls pass no retry_policy
MaxAttemptsOf(name) ==
  CASE name = "get_target" -> GetTargetMaxAttempts
    [] name = "run_hashid" -> HashidMaxAttempts
    [] name = "run_hashcat" -> HashcatMaxAttempts
    [] name = "run_capa" -> CapaMaxAttempts
    [] name = "scan_with_llm" -> LlmScanMaxAttempts
    [] OTHER -> Unlimited

\* what the call site sees after an attempt with outcome o under policy max
CallResult(o, max) ==
  IF o = "ok" THEN "ok"
  ELSE IF o = "fail" /\ WillRetry(max) THEN "pending"
  ELSE "raised"

\* calls after one more attempt, with outcome o, of the activity `name`
\* called with `args` under a policy of `max` attempts
Attempted(name, args, max, o) ==
  IF attempt = 0
  THEN Append(calls, [name |-> name, args |-> args, attempts |-> 1,
                      result |-> CallResult(o, max), last |-> o])
  ELSE [calls EXCEPT ![Len(calls)].attempts = @ + 1,
                     ![Len(calls)].result = CallResult(o, max),
                     ![Len(calls)].last = o]

\* a retried attempt that leaves a "retry" step record in the run record
RetryingRecorded ==
  /\ attempt' = attempt + 1
  /\ results' = AppendStep(results, "retry", "failed")
  /\ UNCHANGED <<pc, locals, exc, outcome>>

\* the attempt failed and Temporal schedules another one: run() stays suspended
Retrying ==
  /\ attempt' = attempt + 1
  /\ UNCHANGED <<pc, results, locals, exc, outcome>>

\* an exception reaches `except Exception as e:` of run(), which re-raises it
Raise(e) ==
  /\ results' = ExceptHandler(results, e)
  /\ exc' = e
  /\ pc' = "done"
  /\ outcome' = "raised"
  /\ attempt' = 0

\* `return results`
Return ==
  /\ pc' = "done"
  /\ outcome' = "returned"
  /\ attempt' = 0
  /\ exc' = <<>>

\* execution moves on to the await named next
Goto(next) ==
  /\ pc' = next
  /\ attempt' = 0
  /\ UNCHANGED <<exc, outcome>>

(* ------------------------ HashCrackingWorkflow ------------------------ *)
\* `if target_hash_type is None:`
HintAbsentFalsy(hint) == hint = None \/ hint = 0
HintAbsent(hint) == hint = None

\* `if hashcat_mode is None:`
ModeMissingFalsy(mode) == mode = None \/ mode = 0
ModeMissing(mode) == mode = None

\* only the first finding of a result is kept
ResultFindingsFirstOnly(r) ==
  LET fs == Get(r, "findings", <<>>) IN IF Len(fs) > 1 THEN SubSeq(fs, 1, 1) ELSE fs
\* hashcat_results.get("findings", []) / fuzz_results.get(...) / scan_results.get(...)
ResultFindings(r) == Get(r, "findings", <<>>)

\* hashid_results.get("summary", {}).get("total_matches", 0)
TotalMatches(r) == Get(Get(r, "summary", EmptyDict), "total_matches", 0)

\* findings[0].get("metadata", {}).get("hashcat_mode")
ExtractMode(findings) == Get(Get(findings[1], "metadata", EmptyDict), "hashcat_mode", None)

\* the if / elif / else on total_matches
Branch(total_matches) ==
  IF total_matches = 0 THEN "no_match"
  ELSE IF total_matches > 1 THEN "multiple"
  ELSE "single"

NoMatchFindings(h) ==
  << [title |-> "No Hash Type Identified", severity |-> "warning",
      category |-> "hash_identification",
      metadata |-> [hash_input |-> h, status |-> "no_match"]] >>

NoModeFindings(findings) ==
  << [title |-> "No Hashcat Mode Available", severity |-> "warning",
      category |-> "hash_identification",
      metadata |-> Get(findings[1], "metadata", EmptyDict)] >>

\* hashcat_config = {"hash": target_hash, "hash_type": hashcat_mode}
HashcatConfig(h, mode) == [hash |-> h, hash_type |-> mode]

\* Step 1: get_target, then `hashcat_mode = target_hash_type`
HC_GetTarget ==
  /\ kind = "hash" /\ pc = "get_target"
  /\ \E o \in AttemptOutcomes :
       /\ Explored(o, GetTargetMaxAttempts)
       /\ calls' = Attempted("get_target",
                      [target_id |-> TargetId, run_id |-> RunId, isolation |-> "isolated"], GetTargetMaxAttempts, o)
       /\ IF o = "fail" /\ WillRetry(GetTargetMaxAttempts)
          THEN Retrying
          ELSE IF o = "ok"
          THEN \E p \in Paths :
                 /\ target_path' = p
                 /\ results' = AppendStep(results, "download_target", "success")
                 /\ hashcat_mode' = target_hash_type
                 /\ Goto(IF HintAbsent(target_hash_type) THEN "run_hashid" ELSE "run_hashcat")
                 /\ UNCHANGED <<hashid_results, analysis, sarif_report>>
          ELSE Raise(ActivityError("get_target")) /\ UNCHANGED locals
  /\ UNCHANGED inputs

\* Step 2: run_hashid and the branch on its result
HC_RunHashid ==
  /\ kind = "hash" /\ pc = "run_hashid"
  /\ \E o \in AttemptOutcomes :
       /\ Explored(o, HashidMaxAttempts)
       /\ calls' = Attempted("run_hashid", [path |-> target_path, config |-> [hash |-> target_hash]], HashidMaxAttempts, o)
       /\ IF o = "fail" /\ WillRetry(HashidMaxAttempts)
          THEN Retrying
          ELSE IF o = "ok"
          THEN \E r \in HashidResults(hashid_contract) :
                 LET findings == Get(r, "findings", <<>>)
                     total_matches == TotalMatches(r)
                     recorded == AppendStep(results, "hash_identification", "success")
                     branch == Branch(total_matches)
                 IN /\ hashid_results' = r
                    /\ IF branch = "no_match"
                       THEN /\ results' = recorded
                            /\ Goto("report_no_match")
                            /\ UNCHANGED hashcat_mode
                       ELSE IF branch = "multiple"
                       THEN /\ results' = recorded
                            /\ Goto("report_multiple")
                            /\ UNCHANGED hashcat_mode
                       ELSE IF findings = <<>>
                       THEN /\ results' = ExceptHandler(recorded, IndexError)
                            /\ exc' = IndexError
                            /\ pc' = "done" /\ outcome' = "raised" /\ attempt' = 0
                            /\ UNCHANGED hashcat_mode
                       ELSE /\ results' = recorded
                            /\ hashcat_mode' = ExtractMode(findings)
                            /\ Goto(IF ModeMissing(ExtractMode(findings))
                                    THEN "report_no_mode" ELSE "run_hashcat")
                    /\ UNCHANGED <<target_path, analysis, sarif_report>>
          ELSE Raise(ActivityError("run_hashid")) /\ UNCHANGED locals
  /\ UNCHANGED inputs

\* zero matches: report on the synthetic finding, then status "aborted"
HC_ReportNoMatch ==
  /\ kind = "hash" /\ pc = "report_no_match"
  /\ \E o \in AttemptOutcomes :
       /\ Explored(o, Unlimited)
       /\ calls' = Attempted("generate_sarif_report_activity",
                      [analysis_results |-> [findings |-> NoMatchFindings(target_hash)],
                       path |-> target_path], Unlimited, o)
       /\ IF o = "fail" /\ WillRetry(Unlimited)
          THEN Retrying
          ELSE IF o = "ok"
          THEN \E sarif \in ReportValues :
                 /\ results' = SetKey(SetKey(SetKey(
                                  [results EXCEPT !.status = "aborted"],
                                  "sarif", sarif),
                                  "error", "No matching hash type found"),
                                  "findings", NoMatchFindings(target_hash))
                 /\ Goto("cleanup_return")
                 /\ UNCHANGED locals
          ELSE Raise(ActivityError("generate_sarif_report_activity")) /\ UNCHANGED locals
  /\ UNCHANGED inputs

\* several matches: report on all candidates, then status "needs_selection"
HC_ReportMultiple ==
  /\ kind = "hash" /\ pc = "report_multiple"
  /\ \E o \in AttemptOutcomes :
       /\ Explored(o, Unlimited)
       /\ calls' = Attempted("generate_sarif_report_activity",
                      [analysis_results |-> hashid_results, path |-> target_path], Unlimited, o)
       /\ IF o = "fail" /\ WillRetry(Unlimited)
          THEN Retrying
          ELSE IF o = "ok"
          THEN \E sarif \in ReportValues :
                 /\ results' = SetKey(SetKey(SetKey(SetKey(
                                  [results EXCEPT !.status = "needs_selection"],
                                  "sarif", sarif),
                                  "message", "Multiple hash types identified. Please re-run with a specific hash_type parameter."),
                                  "findings", Get(hashid_results, "findings", <<>>)),
                                  "summary", Get(hashid_results, "summary", EmptyDict))
                 /\ Goto("cleanup_return")
                 /\ UNCHANGED locals
          ELSE Raise(ActivityError("generate_sarif_report_activity")) /\ UNCHANGED locals
  /\ UNCHANGED inputs

\* one match without a hashcat mode: report on the synthetic finding, then "aborted"
HC_ReportNoMode ==
  /\ kind = "hash" /\ pc = "report_no_mode"
  /\ \E o \in AttemptOutcomes :
       /\ Explored(o, Unlimited)
       /\ calls' = Attempted("generate_sarif_report_activity",
                      [analysis_results |-> [findings |-> NoModeFindings(hashid_results.findings)],
                       path |-> target_path], Unlimited, o)
       /\ IF o = "fail" /\ WillRetry(Unlimited)
          THEN Retrying
          ELSE IF o = "ok"
          THEN \E sarif \in ReportValues :
                 /\ results' = SetKey(SetKey(SetKey(
                                  [results EXCEPT !.status = "aborted"],
                                  "sarif", sarif),
                                  "error", "No hashcat mode available for identified hash type"),
                                  "findings", NoModeFindings(hashid_results.findings))
                 /\ Goto("cleanup_return")
                 /\ UNCHANGED locals
          ELSE Raise(ActivityError("generate_sarif_report_activity")) /\ UNCHANGED locals
  /\ UNCHANGED inputs

\* _cleanup without its try / except: a cleanup failure reaches the handler of run()
HC_CleanupReturnUnguarded ==
  /\ kind = "hash" /\ pc = "cleanup_return"
  /\ \E o \in AttemptOutcomes :
       /\ Explored(o, Unlimited)
       /\ calls' = Attempted("cleanup_cache", [path |-> target_path, isolation |-> "isolated"], Unlimited, o)
       /\ IF o = "fail" /\ WillRetry(Unlimited)
          THEN Retrying
          ELSE IF o = "ok"
          THEN Return /\ UNCHANGED <<results, locals>>
          ELSE Raise(ActivityError("cleanup_cache")) /\ UNCHANGED locals
  /\ UNCHANGED inputs

\* _cleanup(target_path) of an early-return branch, then `return results`
HC_CleanupReturn ==
  /\ kind = "hash" /\ pc = "cleanup_return"
  /\ \E o \in AttemptOutcomes :
       /\ Explored(o, Unlimited)
       /\ calls' = Attempted("cleanup_cache", [path |-> target_path, isolation |-> "isolated"], Unlimited, o)
       /\ IF o = "fail" /\ WillRetry(Unlimited)
          THEN Retrying
          ELSE Return /\ UNCHANGED <<results, locals>>
  /\ UNCHANGED inputs

\* Step 3: run_hashcat; its step record takes the status the activity reports
HC_RunHashcat ==
  /\ kind = "hash" /\ pc = "run_hashcat"
  /\ \E o \in AttemptOutcomes :
       /\ Explored(o, HashcatMaxAttempts)
       /\ calls' = Attempted("run_hashcat",
                      [path |-> target_path, config |-> HashcatConfig(target_hash, hashcat_mode)], HashcatMaxAttempts, o)
       /\ IF o = "fail" /\ WillRetry(HashcatMaxAttempts)
          THEN Retrying
          ELSE IF o = "ok"
          THEN \E r \in AnalysisResults :
                 /\ analysis' = r
                 /\ results' = AppendStep(results, "hash_cracking", Get(r, "status", "unknown"))
                 /\ Goto("generate_sarif")
                 /\ UNCHANGED <<target_path, hashid_results, hashcat_mode, sarif_report>>
          ELSE Raise(ActivityError("run_hashcat")) /\ UNCHANGED locals
  /\ UNCHANGED inputs

\* Step 4: report generation inside try / except Exception -> sarif = {}
HC_GenerateSarif ==
  /\ kind = "hash" /\ pc = "generate_sarif"
  /\ \E o \in AttemptOutcomes :
       /\ Explored(o, Unlimited)
       /\ calls' = Attempted("generate_sarif_report_activity",
                      [analysis_results |-> analysis, path |-> target_path], Unlimited, o)
       /\ IF o = "fail" /\ WillRetry(Unlimited)
          THEN Retrying
          ELSE /\ \E sarif \in ReportValues :
                    results' = SetKey(results, "sarif", IF o = "ok" THEN sarif ELSE "empty")
               /\ Goto("upload_results")
               /\ UNCHANGED locals
  /\ UNCHANGED inputs

\* Step 5: upload inside try / except Exception -> results_url = None
HC_UploadResults ==
  /\ kind = "hash" /\ pc = "upload_results"
  /\ \E o \in AttemptOutcomes :
       /\ Explored(o, Unlimited)
       /\ calls' = Attempted("upload_results",
                      [workflow_id |-> WorkflowId, payload |-> analysis, format |-> "json"], Unlimited, o)
       /\ IF o = "fail" /\ WillRetry(Unlimited)
          THEN Retrying
          ELSE /\ results' = SetKey(results, "results_url", IF o = "ok" THEN PublishUrl ELSE "None")
               /\ Goto("cleanup")
               /\ UNCHANGED locals
  /\ UNCHANGED inputs

\* Step 6: _cleanup(target_path), then status "success", findings, summary, return
HC_Cleanup ==
  /\ kind = "hash" /\ pc = "cleanup"
  /\ \E o \in AttemptOutcomes :
       /\ Explored(o, Unlimited)
       /\ calls' = Attempted("cleanup_cache", [path |-> target_path, isolation |-> "isolated"], Unlimited, o)
       /\ IF o = "fail" /\ WillRetry(Unlimited)
          THEN Retrying
          ELSE /\ results' = SetKey(SetKey(
                                [results EXCEPT !.status = "success"],
                                "findings", ResultFindings(analysis)),
                                "summary", Get(analysis, "summary", EmptyDict))
               /\ Return
               /\ UNCHANGED locals
  /\ UNCHANGED inputs

(* ----------------------- BinaryAnalysisWorkflow ----------------------- *)
\* Step 1: get_target
BA_GetTarget ==
  /\ kind = "binary" /\ pc = "get_target"
  /\ \E o \in AttemptOutcomes :
       /\ Explored(o, GetTargetMaxAttempts)
       /\ calls' = Attempted("get_target",
                      [target_id |-> TargetId, run_id |-> RunId, isolation |-> "isolated"], GetTargetMaxAttempts, o)
       /\ IF o = "fail" /\ WillRetry(GetTargetMaxAttempts)
          THEN Retrying
          ELSE IF o = "ok"
          THEN \E p \in Paths :
                 /\ target_path' = p
                 /\ results' = AppendStep(results, "download_target", "success")
                 /\ Goto("run_capa")
                 /\ UNCHANGED <<hashid_results, hashcat_mode, analysis, sarif_report>>
          ELSE Raise(ActivityError("get_target")) /\ UNCHANGED locals
  /\ UNCHANGED inputs

\* Step 2: run_capa; the step record is written with status "success"
BA_RunCapa ==
  /\ kind = "binary" /\ pc = "run_capa"
  /\ \E o \in AttemptOutcomes :
       /\ Explored(o, CapaMaxAttempts)
       /\ calls' = Attempted("run_capa", [path |-> target_path, config |-> [target_file |-> "a.out"]], CapaMaxAttempts, o)
       /\ IF o = "fail" /\ WillRetry(CapaMaxAttempts)
          THEN Retrying
          ELSE IF o = "ok"
          THEN \E r \in AnalysisResults :
                 /\ analysis' = r
                 /\ results' = AppendStep(results, "fuzzing", "success")
                 /\ Goto("generate_sarif")
                 /\ UNCHANGED <<target_path, hashid_results, hashcat_mode, sarif_report>>
          ELSE Raise(ActivityError("run_capa")) /\ UNCHANGED locals
  /\ UNCHANGED inputs

\* the cache is cleaned at the report step, before report and upload
BA_GenerateSarifCleansFirst ==
  /\ kind = "binary" /\ pc = "generate_sarif"
  /\ \E o \in AttemptOutcomes :
       /\ Explored(o, Unlimited)
       /\ calls' = Attempted("cleanup_cache", [path |-> target_path, isolation |-> "isolated"], Unlimited, o)
       /\ IF o = "fail" /\ WillRetry(Unlimited)
          THEN Retrying
          ELSE /\ results' = SetKey(results, "sarif", "empty")
               /\ Goto("upload_results")
               /\ UNCHANGED locals
  /\ UNCHANGED inputs

\* Step 3: report generation inside try / except Exception -> sarif = {}
BA_GenerateSarif ==
  /\ kind = "binary" /\ pc = "generate_sarif"
  /\ \E o \in AttemptOutcomes :
       /\ Explored(o, Unlimited)
       /\ calls' = Attempted("generate_sarif_report_binary_analysis",
                      [analysis_results |-> analysis, path |-> target_path], Unlimited, o)
       /\ IF o = "fail" /\ WillRetry(Unlimited)
          THEN Retrying
          ELSE /\ \E sarif \in ReportValues :
                    results' = SetKey(results, "sarif", IF o = "ok" THEN sarif ELSE "empty")
               /\ Goto("upload_results")
               /\ UNCHANGED locals
  /\ UNCHANGED inputs

\* Step 4: upload inside try / except Exception -> results_url = None
BA_UploadResults ==
  /\ kind = "binary" /\ pc = "upload_results"
  /\ \E o \in AttemptOutcomes :
       /\ Explored(o, Unlimited)
       /\ calls' = Attempted("upload_results",
                      [workflow_id |-> WorkflowId, payload |-> analysis, format |-> "json"], Unlimited, o)
       /\ IF o = "fail" /\ WillRetry(Unlimited)
          THEN Retrying
          ELSE /\ results' = SetKey(results, "results_url", IF o = "ok" THEN PublishUrl ELSE "None")
               /\ Goto("cleanup")
               /\ UNCHANGED locals
  /\ UNCHANGED inputs

\* cleanup_cache awaited without try / except: its failure reaches the handler
BA_CleanupUnguarded ==
  /\ kind = "binary" /\ pc = "cleanup"
  /\ \E o \in AttemptOutcomes :
       /\ Explored(o, Unlimited)
       /\ calls' = Attempted("cleanup_cache", [path |-> target_path, isolation |-> "isolated"], Unlimited, o)
       /\ IF o = "fail" /\ WillRetry(Unlimited)
          THEN Retrying
          ELSE IF o = "ok"
          THEN /\ results' = SetKey(SetKey(
                                [results EXCEPT !.status = "success"],
                                "findings", ResultFindings(analysis)),
                                "summary", Get(analysis, "summary", EmptyDict))
               /\ Return
               /\ UNCHANGED locals
          ELSE Raise(ActivityError("cleanup_cache")) /\ UNCHANGED locals
  /\ UNCHANGED inputs

\* Step 5: cleanup_cache inside try / except, then status "success" and return
BA_Cleanup ==
  /\ kind = "binary" /\ pc = "cleanup"
  /\ \E o \in AttemptOutcomes :
       /\ Explored(o, Unlimited)
       /\ calls' = Attempted("cleanup_cache", [path |-> target_path, isolation |-> "isolated"], Unlimited, o)
       /\ IF o = "fail" /\ WillRetry(Unlimited)
          THEN Retrying
          ELSE /\ results' = SetKey(SetKey(
                                [results EXCEPT !.status = "success"],
                                "findings", ResultFindings(analysis)),
                                "summary", Get(analysis, "summary", EmptyDict))
               /\ Return
               /\ UNCHANGED locals
  /\ UNCHANGED inputs

(* --------------------- LlmSecretDetectionWorkflow --------------------- *)
\* `sarif_report or {}`
OrEmptyDict(v) == IF v \in {"empty", "None", ""} THEN "empty" ELSE v

\* Step 1: get_target with isolation "shared"
LLM_GetTarget ==
  /\ kind = "llm" /\ pc = "get_target"
  /\ \E o \in AttemptOutcomes :
       /\ Explored(o, GetTargetMaxAttempts)
       /\ calls' = Attempted("get_target",
                      [target_id |-> TargetId, run_id |-> RunId, isolation |-> "shared"], GetTargetMaxAttempts, o)
       /\ IF o = "fail" /\ WillRetry(GetTargetMaxAttempts)
          THEN Retrying
          ELSE IF o = "ok"
          THEN \E p \in Paths :
                 /\ target_path' = p
                 /\ results' = AppendStep(results, "download", "success")
                 /\ Goto("scan_with_llm")
                 /\ UNCHANGED <<hashid_results, hashcat_mode, analysis, sarif_report>>
          ELSE Raise(ActivityError("get_target")) /\ UNCHANGED locals
  /\ UNCHANGED inputs

\* Step 2: scan_with_llm; the step record is written with status "success"
LLM_ScanWithLlm ==
  /\ kind = "llm" /\ pc = "scan_with_llm"
  /\ \E o \in AttemptOutcomes :
       /\ Explored(o, LlmScanMaxAttempts)
       /\ calls' = Attempted("scan_with_llm", [path |-> target_path, config |-> EmptyDict], LlmScanMaxAttempts, o)
       /\ IF o = "fail" /\ WillRetry(LlmScanMaxAttempts)
          THEN Retrying
          ELSE IF o = "ok"
          THEN \E r \in AnalysisResults :
                 /\ analysis' = r
                 /\ results' = AppendStep(results, "llm_scan", "success")
                 /\ Goto("generate_sarif")
                 /\ UNCHANGED <<target_path, hashid_results, hashcat_mode, sarif_report>>
          ELSE Raise(ActivityError("scan_with_llm")) /\ UNCHANGED locals
  /\ UNCHANGED inputs

\* Step 3: llm_generate_sarif, awaited outside any inner try
LLM_GenerateSarif ==
  /\ kind = "llm" /\ pc = "generate_sarif"
  /\ \E o \in AttemptOutcomes :
       /\ Explored(o, Unlimited)
       /\ calls' = Attempted("llm_generate_sarif",
                      [findings |-> Get(analysis, "findings", <<>>)], Unlimited, o)
       /\ IF o = "fail" /\ WillRetry(Unlimited)
          THEN Retrying
          ELSE IF o = "ok"
          THEN \E sarif \in ReportValues :
                 /\ sarif_report' = sarif
                 /\ Goto("upload_results")
                 /\ UNCHANGED <<results, target_path, hashid_results, hashcat_mode, analysis>>
          ELSE Raise(ActivityError("llm_generate_sarif")) /\ UNCHANGED locals
  /\ UNCHANGED inputs

\* Step 4: upload inside try / except Exception -> results_url = None
LLM_UploadResults ==
  /\ kind = "llm" /\ pc = "upload_results"
  /\ \E o \in AttemptOutcomes :
       /\ Explored(o, Unlimited)
       /\ calls' = Attempted("upload_results",
                      [workflow_id |-> WorkflowId, payload |-> analysis, format |-> "json"], Unlimited, o)
       /\ IF o = "fail" /\ WillRetry(Unlimited)
          THEN Retrying
          ELSE /\ results' = SetKey(results, "results_url", IF o = "ok" THEN PublishUrl ELSE "None")
               /\ Goto("cleanup")
               /\ UNCHANGED locals
  /\ UNCHANGED inputs

\* cleanup_cache called with the isolation mode of the other workflows
LLM_CleanupIsolated ==
  /\ kind = "llm" /\ pc = "cleanup"
  /\ \E o \in AttemptOutcomes :
       /\ Explored(o, Unlimited)
       /\ calls' = Attempted("cleanup_cache", [path |-> target_path, isolation |-> "isolated"], Unlimited, o)
       /\ IF o = "fail" /\ WillRetry(Unlimited)
          THEN Retrying
          ELSE /\ results' = SetKey(SetKey(SetKey(
                                [results EXCEPT !.status = "success"],
                                "findings", ResultFindings(analysis)),
                                "summary", Get(analysis, "summary", EmptyDict)),
                                "sarif", OrEmptyDict(sarif_report))
               /\ Return
               /\ UNCHANGED locals
  /\ UNCHANGED inputs

\* Step 5: cleanup_cache inside try / except, then status "success" and return
LLM_Cleanup ==
  /\ kind = "llm" /\ pc = "cleanup"
  /\ \E o \in AttemptOutcomes :
       /\ Explored(o, Unlimited)
       /\ calls' = Attempted("cleanup_cache", [path |-> target_path, isolation |-> "shared"], Unlimited, o)
       /\ IF o = "fail" /\ WillRetry(Unlimited)
          THEN Retrying
          ELSE /\ results' = SetKey(SetKey(SetKey(
                                [results EXCEPT !.status = "success"],
                                "findings", ResultFindings(analysis)),
                                "summary", Get(analysis, "summary", EmptyDict)),
                                "sarif", OrEmptyDict(sarif_report))
               /\ Return
               /\ UNCHANGED locals
  /\ UNCHANGED inputs

(* --------------------------- specification ---------------------------- *)
\* the state at the start of run(), for run_hashid contracts in C
InitUnder(C) ==
  /\ kind \in Kinds
  /\ hashid_contract \in C
  /\ target_hash \in (IF kind = "hash" THEN Hashes ELSE {""})
  /\ target_hash_type \in (IF kind = "hash" THEN Modes \cup {None} ELSE {None})
  /\ pc = "get_target"
  /\ attempt = 0
  /\ calls = <<>>
  /\ results = InitialResults(kind)
  /\ target_path = ""
  /\ hashid_results = NoResult
  /\ hashcat_mode = None
  /\ analysis = NoResult
  /\ sarif_report = ""
  /\ exc = <<>>
  /\ outcome = "running"
  /\ runs = <<>>
  /\ module_call = <<>>

Init == InitUnder({"module"})
InitAny == InitUnder({"any"})

Next ==
  \/ HC_GetTarget
  \/ HC_RunHashid
  \/ HC_ReportNoMatch
  \/ HC_ReportMultiple
  \/ HC_ReportNoMode
  \/ HC_CleanupReturn
  \/ HC_RunHashcat
  \/ HC_GenerateSarif
  \/ HC_UploadResults
  \/ HC_Cleanup
  \/ BA_GetTarget
  \/ BA_RunCapa
  \/ BA_GenerateSarif
  \/ BA_UploadResults
  \/ BA_Cleanup
  \/ LLM_GetTarget
  \/ LLM_ScanWithLlm
  \/ LLM_GenerateSarif
  \/ LLM_UploadResults
  \/ LLM_Cleanup

\* runs in which run_hashid behaves as the repository's module does
Spec == Init /\ [][Next]_vars
\* runs in which run_hashid may return any result dict
SpecAny == InitAny /\ [][Next]_vars

(* ------------------ activities that fail every time ------------------ *)
\* the awaits that pass no retry_policy: report, upload, cleanup
DefaultPolicyAwaits ==
  {"report_no_match", "report_multiple", "report_no_mode", "cleanup_return",
   "generate_sarif", "upload_results", "cleanup"}

\* An activity under the default policy fails once more and is scheduled
\* again.  The policy never looks at the attempt number, so attempts past
\* MaxDefaultAttempts - 1 are counted by their parity only.
DefaultPolicyFailsAgain ==
  /\ pc \in DefaultPolicyAwaits
  /\ attempt >= 1
  /\ attempt >= MaxDefaultAttempts - 1
  /\ MaxAttemptsOf(calls[Len(calls)].name) = Unlimited
  /\ attempt' = IF attempt = MaxDefaultAttempts - 1
                THEN MaxDefaultAttempts ELSE MaxDefaultAttempts - 1
  /\ calls' = [calls EXCEPT ![Len(calls)].attempts = attempt',
                            ![Len(calls)].result = "pending",
                            ![Len(calls)].last = "fail"]
  /\ UNCHANGED <<pc, results, locals, exc, outcome, inputs>>

NextLive ==
  \/ Next
  \/ DefaultPolicyFailsAgain

\* every attempt eventually returns or fails, with whatever outcome
SpecLive == Init /\ [][NextLive]_vars /\ WF_vars(NextLive)

(* ------------------- runs executing side by side --------------------- *)
\* Two runs, of any kinds, started on targets of TargetIds.  Each run is
\* followed through the awaits that hand a workspace path to an activity:
\* get_target, the activities working in the workspace, cleanup_cache.
RunNumbers == {1, 2}
TargetIds == {"target-1", "target-2"}

\* the isolation mode run() passes to get_target and to cleanup_cache
IsolationOf(k) == IF k = "llm" THEN "shared" ELSE "isolated"

\* the workspace get_target returns: private to the run when "isolated",
\* shared by the runs of the same target when "shared"
FetchPath(target_id, run_id, isolation) ==
  IF isolation = "isolated" THEN <<"cache", target_id, run_id>> ELSE <<"cache", target_id>>

NoPath == <<>>

\* run r between the return of its get_target and the end of its cleanup_cache
Holds(r) == runs[r].pc \in {"workspace", "cleanup"}

\* await get_target: the path is stored in target_path, a failure ends the run
P_GetTarget(r) ==
  /\ runs[r].pc = "get_target"
  /\ \E ok \in BOOLEAN :
       runs' = [runs EXCEPT ![r].pc = IF ok THEN "workspace" ELSE "done",
                            ![r].target_path =
                               IF ok THEN FetchPath(runs[r].target_id, r, IsolationOf(runs[r].kind))
                               ELSE NoPath]

\* the awaits between fetch and cleanup that pass target_path to an activity
\* (run_hashid, run_hashcat, run_capa, scan_with_llm, report generation);
\* a failure of a critical one ends the run without cleanup
P_UseWorkspace(r) ==
  /\ runs[r].pc = "workspace"
  /\ \E ok \in BOOLEAN :
       runs' = [runs EXCEPT ![r].pc = IF ok THEN "cleanup" ELSE "done"]

\* await cleanup_cache(target_path, isolation), then return
P_Cleanup(r) ==
  /\ runs[r].pc = "cleanup"
  /\ runs' = [runs EXCEPT ![r].pc = "done"]

\* the variables of the single run, not started
NotStarted ==
  /\ kind = "llm"
  /\ hashid_contract = "module"
  /\ target_hash = ""
  /\ target_hash_type = None
  /\ pc = "get_target"
  /\ attempt = 0
  /\ calls = <<>>
  /\ results = InitialResults("llm")
  /\ target_path = ""
  /\ hashid_results = NoResult
  /\ hashcat_mode = None
  /\ analysis = NoResult
  /\ sarif_report = ""
  /\ exc = <<>>
  /\ outcome = "running"

InitPair ==
  /\ NotStarted
  /\ module_call = <<>>
  /\ runs \in [RunNumbers -> [kind : Kinds, target_id : TargetIds,
                              pc : {"get_target"}, target_path : {NoPath}]]

pairFrame ==
  <<kind, hashid_contract, target_hash, target_hash_type, pc, attempt, calls, results,
    target_path, hashid_results, hashcat_mode, analysis, sarif_report, exc, outcome,
    module_call>>

NextPair ==
  \/ \E r \in RunNumbers : P_GetTarget(r) /\ UNCHANGED pairFrame
  \/ \E r \in RunNumbers : P_UseWorkspace(r) /\ UNCHANGED pairFrame
  \/ \E r \in RunNumbers : P_Cleanup(r) /\ UNCHANGED pairFrame

\* two runs interleaved at their awaits
SpecPair == InitPair /\ [][NextPair]_vars

(* --------------------- activities and modules ------------------------ *)
\* a call that returned v / a call that raised e
Returned(v) == [raised |-> FALSE, exc |-> <<>>, value |-> v]
Raised(e) == [raised |-> TRUE, exc |-> e, value |-> EmptyDict]
NotRun == [raised |-> FALSE, exc |-> <<>>, value |-> [pending |-> TRUE]]

\* the workspace path names nothing, a file, or a directory
Workspaces == {"missing", "file", "dir"}
\* Path(workspace_path).exists()
Exists(workspace) == workspace # "missing"

ValueError(text) == <<"ValueError", text>>
RuntimeError(text) == <<"RuntimeError", text>>
FileNotFoundError(text) == <<"FileNotFoundError", text>>
TypeError(text) == <<"TypeError", text>>
NoException == <<>>
\* the classes `except Exception` catches
ExceptionClasses == {"ValueError", "RuntimeError", "FileNotFoundError", "TypeError"}

\* self.validate_workspace(workspace): raises unless the workspace is a directory
ValidateWorkspace(workspace) ==
  IF workspace = "dir" THEN NoException ELSE ValueError("invalid workspace")

\* `await x`: the value of a coroutine, TypeError for any other object
Await(x, is_coroutine) ==
  IF is_coroutine THEN Returned(x)
  ELSE Raised(TypeError("object ModuleResult can't be used in 'await' expression"))

\* the HashInfo tuples hashid.identifyHash yields
HashTypeNames == {"MD5", "NTLM"}
HashInfos == [name : HashTypeNames, hashcat : Modes \cup {None}]

\* a finding whose match_index counts from one
HashIdFindingOneBased(hash_str, idx, hash_info) ==
  [title |-> <<"Possible Hash Type", hash_info.name>>, severity |-> "info",
   category |-> "hash_identification",
   metadata |-> [hash_input |-> hash_str, identified_type |-> hash_info.name,
                 match_index |-> idx + 1, hashcat_mode |-> hash_info.hashcat]]

\* self.create_finding(...) for the idx-th identified type (idx from 0)
HashIdFinding(hash_str, idx, hash_info) ==
  [title |-> <<"Possible Hash Type", hash_info.name>>, severity |-> "info",
   category |-> "hash_identification",
   metadata |-> [hash_input |-> hash_str, identified_type |-> hash_info.name,
                 match_index |-> idx, hashcat_mode |-> hash_info.hashcat]]

\* HashIdIdentifier.validate_config
HashIdValidateConfig(config) ==
  IF Get(config, "hash", "") = ""
  THEN ValueError("'hash' must be provided for hash identification")
  ELSE NoException

\* HashIdIdentifier.execute: a plain function; whatever is raised inside its
\* try is turned into a result with status "failed"
HashIdIdentifier_execute(config, workspace, identified) ==
  LET e == IF HashIdValidateConfig(config) # NoException
           THEN HashIdValidateConfig(config)
           ELSE ValidateWorkspace(workspace)
  IN IF e # NoException
     THEN [status |-> "failed", findings |-> <<>>, summary |-> EmptyDict, error |-> Str(e)]
     ELSE [status |-> "success",
           findings |-> [i \in 1 .. Len(identified) |->
                           HashIdFinding(config.hash, i - 1, identified[i])],
           summary |-> [possible_hash_types |-> [i \in 1 .. Len(identified) |-> identified[i].name],
                        total_matches |-> Len(identified)],
           error |-> "None"]

\* `async def` methods return coroutines, `def` methods their value
IsCoroutineFunction(method) == method \in {"Hashcat.execute"}

\* the run_hashid activity
run_hashid(workspace, config, identified) ==
  IF ~Exists(workspace)
  THEN Raised(FileNotFoundError("Workspace not found"))
  ELSE Await(HashIdIdentifier_execute(config, workspace, identified),
             IsCoroutineFunction("HashIdIdentifier.execute"))

\* longest list of report entries in an unblob report document
MaxReports == 3
\* longest list of task results in an unblob report document
MaxTasks == 2
\* longest list of report entries of one task result
MaxTaskReports == 1

\* entries of unblob's report.json
ReportEntries ==
  {[typename |-> "ChunkReport", handler_name |-> h] : h \in {"zip", "gzip"}}
  \cup {[typename |-> "StatReport", is_file |-> v] : v \in {0, 1}}
  \cup {[typename |-> "UnknownError"]}

\* the documents json.loads may return: {"reports": [...]}, {"reports": {...}}
\* (iterated in document order), a list of task results, and the outputs
\* that are empty or not JSON
ReportDocuments ==
  {[shape |-> sh, reports |-> rs] :
      sh \in {"dict_of_list", "dict_of_dict"}, rs \in SeqsUpTo(ReportEntries, MaxReports)}
  \cup {[shape |-> "list_of_tasks", tasks |-> ts] :
          ts \in SeqsUpTo(SeqsUpTo(ReportEntries, MaxTaskReports), MaxTasks)}
  \cup {[shape |-> "empty"], [shape |-> "not_json"]}

RECURSIVE Concat(_)
Concat(seqs) == IF seqs = <<>> THEN <<>> ELSE Head(seqs) \o Concat(Tail(seqs))

\* iter_reports(root): the report entries whatever the top-level shape
IterReports(doc) ==
  CASE doc.shape \in {"dict_of_list", "dict_of_dict"} -> doc.reports
    [] doc.shape = "list_of_tasks" -> Concat(doc.tasks)
    [] OTHER -> <<>>

\* self.create_finding(...) for a ChunkReport
ChunkFinding(report, target_file) ==
  [title |-> <<"Found a chunk", report.handler_name>>, severity |-> "info",
   category |-> "carved_chunk",
   metadata |-> [handler_name |-> report.handler_name, file_path |-> target_file]]

\* `is_file_val in (1, True)`
CountsAsExtracted(report) == Get(report, "is_file", None) = 1

\* the loop `for report in iter_reports(results)`
RECURSIVE ParseReports(_, _, _, _)
ParseReports(reports, target_file, findings, files_extracted) ==
  IF reports = <<>>
  THEN [findings |-> findings, files_extracted |-> files_extracted]
  ELSE LET report == Head(reports)
           typename == Get(report, "typename", "None")
       IN ParseReports(Tail(reports), target_file,
             IF typename = "ChunkReport"
             THEN Append(findings, ChunkFinding(report, target_file)) ELSE findings,
             IF typename = "StatReport" /\ CountsAsExtracted(report)
             THEN files_extracted + 1 ELSE files_extracted)

\* Unblob._parse_unblob_output(output, target_file) -> (findings, summary)
Unblob_parse_unblob_output(doc, target_file) ==
  LET parsed == ParseReports(IterReports(doc), target_file, <<>>, 0)
  IN [findings |-> parsed.findings,
      summary |-> [target_file |-> target_file,
                   files_extracted |-> parsed.files_extracted,
                   analysis_completed |-> TRUE]]

UnblobArgs == [output : ReportDocuments, target_file : {"firmware.bin"}]

\* str(v) of a number
StrOf(v) == <<"str", v>>

\* Hashcat.validate_config
HashcatValidateConfig(config) ==
  IF Get(config, "hash", "") = ""
  THEN ValueError("'hash' must be provided for hashcat cracking")
  ELSE IF Get(config, "hash_type", None) = None
  THEN ValueError("'hash_type' must be provided for hashcat cracking")
  ELSE NoException

\* what running the hashcat process does: the binary cannot be started,
\* it exits with a non-zero code, or it exits with 0 and leaves a potfile
\* (with a first line or empty) or none
ProcessOutcomes ==
  {[started |-> FALSE, returncode |-> 0, potfile |-> "absent"]}
  \cup [started : {TRUE}, returncode : {0, 1}, potfile : {"absent", "", "password"}]

\* the exception, if any, raised inside the try of Hashcat.execute
HashcatTryRaises(config, workspace, process) ==
  IF HashcatValidateConfig(config) # NoException THEN HashcatValidateConfig(config)
  ELSE IF ValidateWorkspace(workspace) # NoException THEN ValidateWorkspace(workspace)
  ELSE IF ~process.started THEN FileNotFoundError("hashcat")
  ELSE IF process.returncode # 0 THEN RuntimeError("Hashcat failed with exit code")
  ELSE NoException

\* the first line of the potfile, "" when there is no potfile
Plaintext(process) == IF process.potfile = "absent" THEN "" ELSE process.potfile

\* a handler that catches RuntimeError only
CatchesRuntimeErrorOnly(e) == e[1] = "RuntimeError"
\* `except Exception as exc:`
Catches(e) == e[1] \in ExceptionClasses

\* Hashcat.execute: the result, or the exception that leaves the method
Hashcat_execute(config, workspace, process) ==
  LET e == HashcatTryRaises(config, workspace, process)
  IN IF e = NoException
     THEN Returned(
            [status |-> "success",
             findings |-> << [title |-> "Cracked Hash", severity |-> "critical",
                              category |-> "cracking",
                              metadata |-> [hash_input |-> config.hash,
                                            hash_type |-> StrOf(config.hash_type),
                                            plaintext |-> Plaintext(process)]] >>,
             summary |-> [plaintext |-> Plaintext(process)],
             error |-> "None"])
     ELSE IF Catches(e)
     THEN Returned([status |-> "failed", findings |-> <<>>, summary |-> EmptyDict,
                    error |-> Str(e)])
     ELSE Raised(e)

\* the run_hashcat activity
run_hashcat(workspace, config, process) ==
  IF ~Exists(workspace)
  THEN Raised(FileNotFoundError("Workspace not found"))
  ELSE LET result == Hashcat_execute(config, workspace, process)
       IN IF result.raised THEN result
          ELSE Await(result.value, IsCoroutineFunction("Hashcat.execute"))

HashcatConfigs ==
  {EmptyDict} \cup {[hash |-> h] : h \in Hashes \cup {""}}
  \cup {HashcatConfig(h, m) : h \in Hashes \cup {""}, m \in Modes \cup {None}}
HashcatArgs == [workspace : Workspaces, config : HashcatConfigs, process : ProcessOutcomes]

\* inputs of the calls
HashConfigs == {EmptyDict} \cup {[hash |-> h] : h \in Hashes \cup {""}}
IdentifiedLists == SeqsUpTo(HashInfos, MaxCandidates)
HashIdArgs == [workspace : Workspaces, config : HashConfigs, identified : IdentifiedLists]

Call(op, args) == [op |-> op, args |-> args, out |-> NotRun]
Calling(op) == module_call # <<>> /\ module_call.op = op /\ module_call.out = NotRun
Called(op) == module_call # <<>> /\ module_call.op = op /\ module_call.out # NotRun
Finish(out) == module_call' = [module_call EXCEPT !.out = out]

moduleFrame ==
  <<kind, hashid_contract, target_hash, target_hash_type, pc, attempt, calls, results,
    target_path, hashid_results, hashcat_mode, analysis, sarif_report, exc, outcome, runs>>

M_run_hashid ==
  /\ Calling("run_hashid")
  /\ Finish(run_hashid(module_call.args.workspace, module_call.args.config,
                       module_call.args.identified))
  /\ UNCHANGED moduleFrame

M_HashIdIdentifier_execute ==
  /\ Calling("HashIdIdentifier.execute")
  /\ Finish(Returned(HashIdIdentifier_execute(module_call.args.config,
                       module_call.args.workspace, module_call.args.identified)))
  /\ UNCHANGED moduleFrame

M_parse_unblob_output ==
  /\ Calling("Unblob._parse_unblob_output")
  /\ Finish(Returned(Unblob_parse_unblob_output(module_call.args.output,
                                                module_call.args.target_file)))
  /\ UNCHANGED moduleFrame

M_Hashcat_execute ==
  /\ Calling("Hashcat.execute")
  /\ Finish(Hashcat_execute(module_call.args.config, module_call.args.workspace,
                            module_call.args.process))
  /\ UNCHANGED moduleFrame

M_run_hashcat ==
  /\ Calling("run_hashcat")
  /\ Finish(run_hashcat(module_call.args.workspace, module_call.args.config,
                        module_call.args.process))
  /\ UNCHANGED moduleFrame

InitModules ==
  /\ NotStarted
  /\ runs = <<>>
  /\ \/ module_call \in {Call("run_hashid", a) : a \in HashIdArgs}
     \/ module_call \in {Call("HashIdIdentifier.execute", a) : a \in HashIdArgs}
     \/ module_call \in {Call("Unblob._parse_unblob_output", a) : a \in UnblobArgs}
     \/ module_call \in {Call("Hashcat.execute", a) : a \in HashcatArgs}
     \/ module_call \in {Call("run_hashcat", a) : a \in HashcatArgs}

NextModules ==
  \/ M_run_hashid
  \/ M_HashIdIdentifier_execute
  \/ M_parse_unblob_output
  \/ M_Hashcat_execute
  \/ M_run_hashcat

\* one call of an activity or of a module function, on any input
SpecModules == InitModules /\ [][NextModules]_vars

(* ------------------------------ claims -------------------------------- *)
CallIndices(name) == {i \in 1 .. Len(calls) : calls[i].name = name}
CallCount(name) == Cardinality(CallIndices(name))
Finished == pc = "done"

ReportActivities ==
  {"generate_sarif_report_activity", "generate_sarif_report_binary_analysis", "llm_generate_sarif"}
CriticalActivities == {"get_target", "run_hashid", "run_hashcat", "run_capa", "scan_with_llm"}
AnalysisSteps == {"hash_cracking", "fuzzing", "llm_scan"}

\* identification returned a result with n candidates and a matching count
Identified(n) ==
  /\ kind = "hash"
  /\ target_hash_type = None
  /\ hashid_results # NoResult
  /\ Len(hashid_results.findings) = n
  /\ TotalMatches(hashid_results) = n

\* C1: in every pipeline kind a finished run has invoked the cleanup
\* activity exactly once, whatever its terminal status (success, aborted,
\* needs_selection, error).
C1_CleanupExactlyOnce == Finished => CallCount("cleanup_cache") = 1

\* C2: when the caller supplies a hash-type hint (mode 0 included) run_hashid
\* is never invoked, every run_hashcat invocation carries hash_type = hint,
\* and once the fetch has succeeded and the run has moved past the cracking
\* step run_hashcat has been invoked (exactly once).
C2_HintSkipsIdentification ==
  (kind = "hash" /\ target_hash_type # None) =>
     /\ CallCount("run_hashid") = 0
     /\ \A i \in CallIndices("run_hashcat") :
          calls[i].args.config.hash_type = target_hash_type
     /\ (target_path # "" /\ pc # "run_hashcat") => CallCount("run_hashcat") = 1

C2_Witness ==
  /\ kind = "hash" /\ target_hash_type = 0
  /\ Finished /\ outcome = "returned"
  /\ \E i \in CallIndices("run_hashcat") : calls[i].args.config.hash_type = 0

\* C3: with no hint, when identification returns zero candidates the run
\* never invokes run_hashcat and finishes with status "aborted" and exactly
\* the one synthetic no-match finding.
C3_ZeroMatchesAborts ==
  Identified(0) =>
     /\ CallCount("run_hashcat") = 0
     /\ Finished => /\ results.status = "aborted"
                    /\ "findings" \in results.keys
                    /\ results.findings = NoMatchFindings(target_hash)

\* C4: with no hint, when identification returns two or more candidates the
\* run never invokes run_hashcat and finishes with status "needs_selection",
\* the candidate findings in order, and a guidance message.
C4_SeveralMatchesNeedSelection ==
  (\E n \in 2 .. MaxCandidates : Identified(n)) =>
     /\ CallCount("run_hashcat") = 0
     /\ Finished => /\ results.status = "needs_selection"
                    /\ "findings" \in results.keys
                    /\ results.findings = hashid_results.findings
                    /\ "message" \in results.keys

\* C5: with no hint, when identification returns exactly one candidate with
\* a usable mode m (0 included), run_hashcat is invoked exactly once, with
\* hash_type = m and hash = target_hash.
C5_SingleCandidateCracks ==
  (Identified(1) /\ ExtractMode(hashid_results.findings) # None) =>
     /\ CallCount("run_hashcat") <= 1
     /\ \A i \in CallIndices("run_hashcat") :
          calls[i].args.config =
            [hash |-> target_hash, hash_type |-> ExtractMode(hashid_results.findings)]
     /\ pc # "run_hashcat" => CallCount("run_hashcat") = 1

C5_Witness ==
  /\ Identified(1) /\ ExtractMode(hashid_results.findings) = 0
  /\ Finished /\ outcome = "returned"
  /\ \E i \in CallIndices("run_hashcat") :
       /\ calls[i].args.config.hash_type = 0
       /\ calls[i].args.config.hash = target_hash
       /\ calls[i].attempts = 1

\* C6: with no hint, when identification returns exactly one candidate
\* without a usable mode the run never invokes run_hashcat and finishes with
\* status "aborted" and one synthetic finding whose title is not the
\* zero-match title.
C6_NoModeAborts ==
  (Identified(1) /\ ExtractMode(hashid_results.findings) = None) =>
     /\ CallCount("run_hashcat") = 0
     /\ Finished => /\ results.status = "aborted"
                    /\ "findings" \in results.keys
                    /\ Len(results.findings) = 1
                    /\ results.findings[1].title # NoMatchFindings(target_hash)[1].title

C8_BestEffortFailureKeepsSuccess ==
  ( /\ Finished
    /\ analysis # NoResult
    /\ \E i \in 1 .. Len(calls) :
         /\ calls[i].name \in ReportActivities \cup {"upload_results"}
         /\ calls[i].result = "raised" )
  => results.status = "success"

\* C9: when the analysis activity returns a result with status "failed" the
\* run does not get status "success" and no record of the analysis step has
\* status "success".
C9_FailedAnalysisIsNotSuccess ==
  (analysis # NoResult /\ analysis.status = "failed") =>
     /\ results.status # "success"
     /\ \A j \in 1 .. Len(results.steps) :
          results.steps[j].step \in AnalysisSteps => results.steps[j].status # "success"

\* C10: a critical activity that exhausts its retries is the last call of
\* the run, which ends with status "error", that activity's error text and
\* an exception for the caller; and a run raises only for that reason.
C10_OnlyCriticalExhaustionPropagates ==
  Finished =>
     /\ \A i \in 1 .. Len(calls) :
          (calls[i].name \in CriticalActivities /\ calls[i].result = "raised") =>
             /\ i = Len(calls)
             /\ outcome = "raised"
             /\ results.status = "error"
             /\ results.error = Str(ActivityError(calls[i].name))
     /\ outcome = "raised" =>
          /\ Len(calls) > 0
          /\ calls[Len(calls)].name \in CriticalActivities
          /\ calls[Len(calls)].result = "raised"

\* C11: a call whose every attempt failed is reported failed after exactly
\* n attempts, n the maximum_attempts of its retry policy (never fewer,
\* never n+1); this for the critical activities and for the report, publish
\* and cleanup activities alike.
C11_ExactlyMaxAttempts ==
  \A i \in 1 .. Len(calls) :
     LET c == calls[i]
         n == MaxAttemptsOf(c.name)
     IN c.last = "fail" =>
          IF c.attempts >= n
          THEN c.result = "raised" /\ c.attempts = n
          ELSE c.result = "pending"

\* the part of C11 about the calls that pass a RetryPolicy (3 for get_target,
\* 1 for run_hashid, run_hashcat and run_capa, 2 for scan_with_llm)
C11_ExplicitPolicies ==
  \A i \in 1 .. Len(calls) :
     LET c == calls[i]
         n == MaxAttemptsOf(c.name)
     IN (n # Unlimited /\ c.last = "fail") =>
          IF c.attempts >= n
          THEN c.result = "raised" /\ c.attempts = n
          ELSE c.result = "pending"

TerminalStatuses == {"success", "error", "aborted", "needs_selection"}

\* C12: status starts as "running" and changes at most once, to a terminal
\* value; once terminal, no later step (report, publish, cleanup, exception
\* handler) changes it.
C12_StatusChangesOnce ==
  /\ results.status = "running"
  /\ [][ /\ results'.status \in {"running"} \cup TerminalStatuses
         /\ results.status # "running" => results'.status = results.status ]_vars

\* a cleanup call failed after the status had become "aborted", and it stayed
C12_Witness ==
  /\ kind = "hash" /\ Finished
  /\ results.status = "aborted"
  /\ calls[Len(calls)].name = "cleanup_cache"
  /\ calls[Len(calls)].result = "raised"

\* C13: when the cleanup activity is invoked the status is already terminal,
\* and cleanup is the last action of the run: no activity is invoked after
\* it and the run record is not mutated once cleanup has been invoked.
C13_CleanupIsLast ==
  [][ /\ (CallCount("cleanup_cache") = 0 /\ CallCount("cleanup_cache")' = 1)
         => results.status \in TerminalStatuses
      /\ CallCount("cleanup_cache") >= 1
         => /\ results' = results
            /\ Len(calls') = Len(calls) ]_vars

\* a finished run of a linear pipeline in which every activity call succeeded
LinearAllSucceeded ==
  /\ kind \in {"binary", "llm"}
  /\ Finished
  /\ Len(calls) = 5
  /\ \A i \in 1 .. Len(calls) : calls[i].result = "ok"
  /\ analysis.status = "success"

IsPrefix(a, b) == Len(a) <= Len(b) /\ SubSeq(b, 1, Len(a)) = a

\* the activity whose completion a step record reports ("" for the record
\* the exception handler appends)
StepActivity(step) ==
  CASE step \in {"download_target", "download"} -> "get_target"
    [] step = "hash_identification" -> "run_hashid"
    [] step = "hash_cracking" -> "run_hashcat"
    [] step = "fuzzing" -> "run_capa"
    [] step = "llm_scan" -> "scan_with_llm"
    [] OTHER -> ""

CallIndex(name) == CHOOSE i \in CallIndices(name) : TRUE

\* the records of steps are in the order their activities were invoked
StepsInInvocationOrder ==
  \A j \in 1 .. Len(results.steps) :
     LET a == StepActivity(results.steps[j].step)
     IN IF a = ""
        THEN j = Len(results.steps)
        ELSE /\ CallCount(a) = 1
             /\ \A k \in (j + 1) .. Len(results.steps) :
                  LET b == StepActivity(results.steps[k].step)
                  IN b # "" => (CallCount(b) = 1 /\ CallIndex(a) < CallIndex(b))

\* C15: steps is append-only (in two successive states the earlier steps is
\* a prefix of the later) and ordered by invocation (the record of an
\* activity invoked earlier precedes the record of one invoked later).
C15_StepsAppendOnlyInOrder ==
  /\ []StepsInInvocationOrder
  /\ [][IsPrefix(results.steps, results'.steps)]_vars

C15_Witness ==
  /\ kind = "hash" /\ Finished
  /\ Len(results.steps) = 3
  /\ results.steps[1].step = "download_target"
  /\ results.steps[2].step = "hash_identification"
  /\ results.steps[3].step = "hash_cracking"
  /\ CallIndex("get_target") < CallIndex("run_hashid")
  /\ CallIndex("run_hashid") < CallIndex("run_hashcat")

CompletedCalls == {i \in 1 .. Len(calls) : calls[i].result # "pending"}
RecordsOf(name) == {j \in 1 .. Len(results.steps) : StepActivity(results.steps[j].step) = name}

C17_FindingsPassThrough ==
  (Finished /\ results.status = "success") =>
     /\ {"findings", "summary"} \subseteq results.keys
     /\ results.findings = analysis.findings
     /\ results.summary = analysis.summary

\* a successful run with two findings whose report and publish calls raised
C17_Witness ==
  /\ Finished /\ results.status = "success"
  /\ Len(results.findings) = 2
  /\ results.findings[1] # results.findings[2]
  /\ results.summary # EmptyDict
  /\ \E i \in 1 .. Len(calls) : calls[i].name \in ReportActivities /\ calls[i].result = "raised"
  /\ \E i \in 1 .. Len(calls) : calls[i].name = "upload_results" /\ calls[i].result = "raised"

\* C18: a failure of the cleanup activity never changes the outcome. In
\* every step taken at a cleanup await the run does not raise, and when the
\* run ends there, its status, findings, summary, report and publish
\* location are the ones fixed by the state before cleanup, the same
\* whether the cleanup call succeeded or failed.
C18_CleanupFailureChangesNothing ==
  [][ (pc \in {"cleanup", "cleanup_return"}) =>
        ( /\ outcome' # "raised"
          /\ (pc' # "done") => (results' = results)
          /\ (pc' = "done") =>
               ( /\ outcome' = "returned"
                 /\ results'.steps = results.steps
                 /\ results'.results_url = results.results_url
                 /\ results'.status =
                      (IF pc = "cleanup_return" THEN results.status ELSE "success")
                 /\ results'.findings =
                      (IF pc = "cleanup_return" THEN results.findings ELSE analysis.findings)
                 /\ results'.summary =
                      (IF pc = "cleanup_return" THEN results.summary ELSE analysis.summary)
                 /\ results'.sarif =
                      (IF kind = "llm" THEN OrEmptyDict(sarif_report) ELSE results.sarif) ) )
    ]_vars

\* a run that returned "success" although its cleanup call failed twice
C18_Witness ==
  /\ Finished /\ outcome = "returned" /\ results.status = "success"
  /\ calls[Len(calls)].name = "cleanup_cache"
  /\ calls[Len(calls)].result = "raised"
  /\ calls[Len(calls)].attempts = 2

\* some call of activity name was started after call i
InvokedAfter(i, name) == \E j \in (i + 1) .. Len(calls) : calls[j].name = name

\* C19: a failed best-effort step leaves its default value and the run goes
\* on. In a finished run, after a report call on the analysis results that
\* raised the record has a present and empty sarif field and publish and cleanup were invoked later;
\* after a publish call that raised the record has a present results_url of
\* None and cleanup was invoked later.
C19_BestEffortFailureUsesDefault ==
  Finished =>
     \A i \in 1 .. Len(calls) :
        /\ (calls[i].name \in ReportActivities /\ calls[i].result = "raised" /\ analysis # NoResult) =>
              /\ "sarif" \in results.keys
              /\ results.sarif = "empty"
              /\ InvokedAfter(i, "upload_results")
              /\ InvokedAfter(i, "cleanup_cache")
        /\ (calls[i].name = "upload_results" /\ calls[i].result = "raised") =>
              /\ "results_url" \in results.keys
              /\ results.results_url = "None"
              /\ InvokedAfter(i, "cleanup_cache")

\* the report activity of an identification branch that returns early raised
EarlyReportRaised ==
  /\ kind = "hash"
  /\ hashid_results # NoResult
  /\ analysis = NoResult
  /\ \E i \in 1 .. Len(calls) :
        /\ calls[i].name = "generate_sarif_report_activity"
        /\ calls[i].result = "raised"

\* C20: in the zero-match, no-usable-mode and multiple-match branches of the
\* hash-cracking workflow a failure of the report activity keeps the branch's
\* status: the run ends "aborted" ("needs_selection" for several matches)
\* with its findings, not "error", without raising, and cleanup is invoked.
C20_EarlyBranchReportFailureKeepsStatus ==
  (Finished /\ EarlyReportRaised) =>
     /\ results.status =
          (IF Branch(TotalMatches(hashid_results)) = "multiple"
           THEN "needs_selection" ELSE "aborted")
     /\ results.status # "error"
     /\ outcome = "returned"
     /\ "findings" \in results.keys
     /\ CallCount("cleanup_cache") = 1

\* the run records a first-attempt success of the activity awaited at pc
\* leaves, for the awaits whose policy allows more than one attempt
FirstAttemptRecords ==
  CASE pc = "get_target" ->
         {AppendStep(results, IF kind = "llm" THEN "download" ELSE "download_target", "success")}
    [] pc = "scan_with_llm" -> {AppendStep(results, "llm_scan", "success")}
    [] pc = "generate_sarif" ->
         IF kind = "llm" THEN {results}
         ELSE {SetKey(results, "sarif", v) : v \in ReportValues}
    [] pc = "upload_results" -> {SetKey(results, "results_url", PublishUrl)}
    [] pc = "cleanup_return" -> {results}
    [] pc = "cleanup" ->
         LET done == SetKey(SetKey([results EXCEPT !.status = "success"],
                                   "findings", analysis.findings), "summary", analysis.summary)
         IN {IF kind = "llm" THEN SetKey(done, "sarif", OrEmptyDict(sarif_report)) ELSE done}
    [] pc = "report_no_match" ->
         {SetKey(SetKey(SetKey([results EXCEPT !.status = "aborted"], "sarif", v),
             "error", "No matching hash type found"),
             "findings", NoMatchFindings(target_hash)) : v \in ReportValues}
    [] pc = "report_no_mode" ->
         {SetKey(SetKey(SetKey([results EXCEPT !.status = "aborted"], "sarif", v),
             "error", "No hashcat mode available for identified hash type"),
             "findings", NoModeFindings(hashid_results.findings)) : v \in ReportValues}
    [] pc = "report_multiple" ->
         {SetKey(SetKey(SetKey(SetKey([results EXCEPT !.status = "needs_selection"], "sarif", v),
             "message", "Multiple hash types identified. Please re-run with a specific hash_type parameter."),
             "findings", hashid_results.findings), "summary", hashid_results.summary) :
           v \in ReportValues}
    [] OTHER -> {}

\* the awaits whose activity may be attempted more than once
RetryableAwaits ==
  {"get_target", "scan_with_llm", "generate_sarif", "upload_results", "cleanup",
   "cleanup_return", "report_no_match", "report_no_mode", "report_multiple"}

\* C21: transient failures are never surfaced. A failed attempt that is
\* retried changes nothing of the run (record, locals, position, outcome),
\* and when the activity then succeeds, after any number of failed attempts,
\* the run record is the one a first-attempt success leaves.
C21_TransientFailuresInvisible ==
  [][ /\ (attempt' > attempt) =>
            (/\ results' = results /\ pc' = pc /\ outcome' = outcome /\ exc' = exc
             /\ target_path' = target_path /\ hashid_results' = hashid_results
             /\ hashcat_mode' = hashcat_mode /\ analysis' = analysis
             /\ sarif_report' = sarif_report)
      /\ (pc \in RetryableAwaits /\ calls'[Len(calls')].result = "ok") =>
            (/\ results' \in FirstAttemptRecords
             /\ outcome' # "raised")
    ]_vars

\* a run that ended "success" although its fetch succeeded only on the third
\* attempt, with a step record of the fetch that says "success"
C21_Witness ==
  /\ Finished /\ results.status = "success"
  /\ Len(calls) >= 1
  /\ calls[1].name = "get_target" /\ calls[1].attempts = GetTargetMaxAttempts
  /\ calls[1].result = "ok"
  /\ results.steps[1].status = "success"
  /\ \A i \in 1 .. Len(results.steps) : results.steps[i].status = "success"

\* C22: terminal statuses are not conflated. A finished hash-cracking run
\* has status "aborted" or "needs_selection" only if run_hashid returned a
\* result with status "success" (with zero matches, one match without a
\* mode, or several matches), and a run whose run_hashid returned a result
\* with status "failed" has status "error".
C22_FailedIdentificationIsError ==
  (kind = "hash" /\ Finished) =>
     /\ results.status \in {"aborted", "needs_selection"} =>
           /\ hashid_results.status = "success"
           /\ \/ Len(hashid_results.findings) = 0
              \/ Len(hashid_results.findings) > 1
              \/ ModeMissing(ExtractMode(hashid_results.findings))
     /\ hashid_results.status = "failed" => results.status = "error"

\* run q hands its workspace path to an activity or to cleanup_cache in this step
ActsOnWorkspace(q) == runs[q].pc \in {"workspace", "cleanup"} /\ runs'[q].pc # runs[q].pc

\* C23: of two runs executing side by side, of any kinds and on any targets,
\* the workspace one run got from get_target is never used or cleaned up
\* by the other between the first run's fetch and its cleanup.
C23_WorkspaceExclusivelyOwned ==
  [][ \A r, q \in RunNumbers :
        (r # q /\ Holds(r) /\ ActsOnWorkspace(q)) =>
           runs[q].target_path # runs[r].target_path ]_vars

\* the stage of the skeleton fetch, identification, analysis, report,
\* publish, cleanup an activity belongs to
Stage(name) ==
  CASE name = "get_target" -> 1
    [] name = "run_hashid" -> 2
    [] name \in {"run_hashcat", "run_capa", "scan_with_llm"} -> 3
    [] name \in ReportActivities -> 4
    [] name = "upload_results" -> 5
    [] name = "cleanup_cache" -> 6

\* C24: within one run at most one activity is in flight and activities are
\* invoked in the order fetch, identification, analysis, report, publish,
\* cleanup: every call but the last has returned or failed, and a call made
\* later belongs to a later stage, in the branching workflow too.
C24_OneActivityAtATimeInOrder ==
  /\ \A i \in 1 .. Len(calls) - 1 : calls[i].result \in {"ok", "raised"}
  /\ \A i, j \in 1 .. Len(calls) : i < j => Stage(calls[i].name) < Stage(calls[j].name)
  /\ (calls # <<>> /\ calls[Len(calls)].result = "pending") => outcome = "running"

\* a hash-cracking run without hint that went through all six stages
C24_Witness ==
  /\ kind = "hash" /\ Finished /\ Len(calls) = 6
  /\ [i \in 1 .. 6 |-> calls[i].name] =
       <<"get_target", "run_hashid", "run_hashcat", "generate_sarif_report_activity",
         "upload_results", "cleanup_cache">>

\* C25: every run terminates. If every attempt of every activity eventually
\* returns or fails, the run eventually reaches a terminal status and
\* returns or raises, also when the report, publish or cleanup activity
\* fails on every attempt.
C25_EveryRunTerminates == <>(Finished /\ results.status \in TerminalStatuses)

\* C26: given an existing workspace and a non-empty hash, the run_hashid
\* activity does not raise and returns the dictionary form of the result that
\* HashIdIdentifier.execute produces (findings, summary, status).
C26_RunHashidReturnsResult ==
  (Called("run_hashid") /\ Exists(module_call.args.workspace)
     /\ Get(module_call.args.config, "hash", "") # "") =>
     /\ ~module_call.out.raised
     /\ module_call.out.value =
          HashIdIdentifier_execute(module_call.args.config, module_call.args.workspace,
                                   module_call.args.identified)

\* positions of the entries of a report document with the given type name
EntriesOfType(doc, typename) ==
  {i \in 1 .. Len(IterReports(doc)) : IterReports(doc)[i].typename = typename}

\* C27: _parse_unblob_output returns exactly one finding per report entry
\* whose type name is ChunkReport, in report order, and sets files_extracted
\* to the number of StatReport entries with is_file == 0, for every document
\* shape it accepts.
C27_UnblobCountsPerDocstring ==
  Called("Unblob._parse_unblob_output") =>
     LET doc == module_call.args.output
         reports == IterReports(doc)
         chunks == SelectSeq(reports, LAMBDA r : r.typename = "ChunkReport")
         out == module_call.out.value
     IN /\ Len(out.findings) = Len(chunks)
        /\ \A i \in 1 .. Len(chunks) :
              out.findings[i].metadata.handler_name = chunks[i].handler_name
        /\ out.summary.files_extracted =
             Cardinality({i \in EntriesOfType(doc, "StatReport") : reports[i].is_file = 0})

\* C28: every cleanup_cache call passes the workspace path the run's
\* get_target returned (target_path, assigned once, by the fetch) and the
\* isolation mode passed to that get_target ("shared" for the LLM workflow,
\* "isolated" for the others), and no cleanup_cache call is made in a run
\* whose get_target did not succeed.
C28_CleanupMatchesFetch ==
  /\ [](\A i \in CallIndices("cleanup_cache") :
          /\ calls[1].name = "get_target" /\ calls[1].result = "ok"
          /\ calls[i].args.path = target_path /\ target_path \in Paths
          /\ calls[i].args.isolation = calls[1].args.isolation
          /\ calls[i].args.isolation = IsolationOf(kind))
  /\ [][ /\ (target_path' # target_path) =>
               (target_path = "" /\ pc = "get_target" /\ calls'[1].result = "ok")
         /\ (calls # <<>> /\ calls[1].result = "ok") => target_path \in Paths ]_vars

\* a finished LLM run whose cleanup got the fetched path and mode "shared"
C28_Witness ==
  /\ kind = "llm" /\ Finished /\ Len(calls) = 5
  /\ calls[1].args.isolation = "shared"
  /\ calls[5].name = "cleanup_cache"
  /\ calls[5].args = [path |-> target_path, isolation |-> "shared"]
  /\ target_path = "/cache/b"

\* C29: every result of HashIdIdentifier.execute with status "success" has
\* summary.total_matches equal to the number of findings, finding i carries
\* match_index i (from 0) and the hashcat mode of the i-th identified type,
\* so the branch the workflow takes on total_matches agrees with the number
\* of candidate findings.
C29_TotalMatchesCountsFindings ==
  (Called("HashIdIdentifier.execute") /\ module_call.out.value.status = "success") =>
     LET r == module_call.out.value
         n == Len(r.findings)
     IN /\ r.summary.total_matches = n
        /\ n = Len(module_call.args.identified)
        /\ \A i \in 1 .. n :
              /\ r.findings[i].metadata.match_index = i - 1
              /\ r.findings[i].metadata.hashcat_mode = module_call.args.identified[i].hashcat
        /\ Branch(TotalMatches(r)) =
             (IF n = 0 THEN "no_match" ELSE IF n = 1 THEN "single" ELSE "multiple")

\* a successful identification of two types, the second without hashcat mode
C29_Witness ==
  /\ Called("HashIdIdentifier.execute")
  /\ module_call.out.value.status = "success"
  /\ Len(module_call.out.value.findings) = 2
  /\ module_call.out.value.findings[2].metadata.match_index = 1
  /\ module_call.out.value.findings[2].metadata.hashcat_mode = None
  /\ module_call.out.value.findings[1].metadata.hashcat_mode = 0

\* the call failed inside Hashcat.execute: invalid config, invalid
\* workspace, binary not started, or non-zero exit code
HashcatFailureInput(args) ==
  \/ Get(args.config, "hash", "") = ""
  \/ Get(args.config, "hash_type", None) = None
  \/ args.workspace # "dir"
  \/ ~args.process.started
  \/ args.process.returncode # 0

\* C30: Hashcat.execute never raises: a failure inside it (missing hash or
\* hash_type, invalid workspace, non-zero exit code) is returned as a result
\* with status "failed", empty findings and the error text; so the
\* run_hashcat activity raises only when the workspace path does not exist.
C30_HashcatNeverRaises ==
  /\ Called("Hashcat.execute") =>
        /\ ~module_call.out.raised
        /\ HashcatFailureInput(module_call.args) =>
              /\ module_call.out.value.status = "failed"
              /\ module_call.out.value.findings = <<>>
              /\ module_call.out.value.error \notin {"None", ""}
        /\ ~HashcatFailureInput(module_call.args) => module_call.out.value.status = "success"
  /\ Called("run_hashcat") =>
        /\ module_call.out.raised <=> ~Exists(module_call.args.workspace)
        /\ module_call.out.raised => module_call.out.exc[1] = "FileNotFoundError"
        /\ (~module_call.out.raised /\ HashcatFailureInput(module_call.args)) =>
              module_call.out.value.status = "failed"

\* run_hashcat on an existing workspace returned the failed result of a
\* hashcat process that exited with a non-zero code
C30_Witness ==
  /\ Called("run_hashcat")
  /\ module_call.args.workspace = "dir"
  /\ module_call.args.config = HashcatConfig("abc", 0)
  /\ module_call.args.process.started /\ module_call.args.process.returncode = 1
  /\ ~module_call.out.raised
  /\ module_call.out.value.status = "failed"
  /\ module_call.out.value.error = "Hashcat failed with exit code"

\* the findings of a result that are titled "Cracked Hash"
CrackedHashFindings(result) ==
  {i \in 1 .. Len(result.findings) : result.findings[i].title = "Cracked Hash"}

\* C31: Hashcat.execute reports a "Cracked Hash" finding only when a
\* plaintext was recovered: every such finding carries a non-empty
\* plaintext, and when hashcat exits with code 0 but the output file is
\* missing or empty the result has no "Cracked Hash" finding and an empty
\* summary.plaintext.
C31_CrackedOnlyWithPlaintext ==
  (Called("Hashcat.execute") /\ ~module_call.out.raised) =>
     LET result == module_call.out.value
         process == module_call.args.process
     IN /\ \A i \in CrackedHashFindings(result) :
              /\ result.findings[i].severity = "critical"
              /\ result.findings[i].metadata.plaintext # ""
        /\ (result.status = "success" /\ process.returncode = 0
              /\ process.potfile \in {"absent", ""}) =>
              /\ CrackedHashFindings(result) = {}
              /\ result.summary.plaintext = ""
====
